---- MODULE Spec2Model ----
(***************************************************************************)
(* Model of the Betfair instrument provider                                *)
(* (nautilus_trader/adapters/betfair/providers.py): the navigation fetch,  *)
(* the chunked market-catalogue fetch, the mapping of catalogue records to *)
(* betting instruments, the instrument registry and the memoised lookup.   *)
(*                                                                         *)
(* A coroutine of the provider is modelled by its position (pc) and its    *)
(* locals; it is suspended exactly at its awaits, where the remote call    *)
(* may return, fail or be cancelled, and where the synchronous methods     *)
(* (search_instruments, get_betting_instrument) may run.                   *)
(***************************************************************************)
EXTENDS Integers, Sequences, FiniteSets, TLC

VARIABLES
    filters,              \* self._filters
    instruments,          \* self._instruments, in insertion order
    cache,                \* self._cache
    account_currency,     \* self._account_currency
    missing_instruments,  \* self._missing_instruments
    pc,                   \* position of the running coroutine
    op,                   \* the coroutine started last
    argument,             \* the market_filter it was called with
    market_filter,        \* local of load_all_async / load_markets
    currency,             \* local of load_all_async
    chunks,               \* chunks load_markets_metadata has not requested yet
    all_results,          \* local of load_markets_metadata
    calls,                \* remote calls the coroutine started last has issued
    responses,            \* chunk responses it has received, in order
    markets,              \* flattened markets the navigation fetch returned
    market_metadata,      \* what load_markets_metadata returned
    added,                \* identifiers passed to add() by the coroutine
    outcome,              \* how the coroutine started last ended
    ret,                  \* currency code the coroutine returned
    regAtStart,           \* the registry when the coroutine was started
    nOps,                 \* coroutines started so far
    accountCalls,         \* get_account_details calls issued so far
    accountReturns,       \* get_account_details calls that returned
    clock,                \* time.time_ns()
    lastResolve,          \* the latest get_betting_instrument call
    prevResolve,          \* the one before it
    warnings,             \* 'Found 0 instrument' warnings logged, per filter
    nResolves,            \* get_betting_instrument calls so far
    lastSearch,           \* the latest search_instruments call
    records,              \* metadata records handed to make_instruments
    outputs,              \* what make_instruments returned or raised for each
    counter,              \* SignalStrategy.counter
    signals,              \* signals published by the strategy, in order
    ticks,                \* ts_event of the trade ticks delivered, in order
    subscribed,           \* the strategy has subscribed to the trade ticks
    config,               \* a Partialable configuration: its identity and fields
    last_update,          \* the latest call of Partialable.update
    last_replace,         \* the latest call of Partialable.replace
    last_inspect          \* the latest is_partial / repr / check of the configuration

vars == <<filters, instruments, cache, account_currency,
          missing_instruments, pc, op, argument, market_filter, currency,
          chunks, all_results, calls, responses, markets, market_metadata, added,
          outcome, ret, regAtStart, nOps, accountCalls, accountReturns, clock,
          lastResolve, prevResolve, warnings, nResolves, lastSearch,
          records, outputs, counter, signals, ticks, subscribed, config, last_update,
          last_replace, last_inspect>>

provider == <<filters, instruments, cache, account_currency, missing_instruments>>
frame == <<market_filter, currency, chunks, all_results, responses, markets,
           market_metadata, added>>
reads == <<lastResolve, prevResolve, warnings, nResolves, lastSearch>>
mapper == <<records, outputs>>
strategy == <<counter, signals, ticks, subscribed>>
configuration == <<config, last_update, last_replace, last_inspect>>
\* what no method of the provider touches
others == <<mapper, strategy, configuration>>

(***************************************************************************)
(* Bounds of the model                                                     *)
(***************************************************************************)
MaxMarkets == 101   \* markets of the largest navigation tree
MaxOps == 2         \* coroutines started in one behaviour
MaxResolves == 2    \* get_betting_instrument calls in one behaviour
MaxPermute == 2     \* sets up to this size are listed in every order

\* chunk(list(...), 50)
CHUNK_SIZE == 50

(***************************************************************************)
(* Python values                                                           *)
(***************************************************************************)
None == "None"

\* An Optional[dict]: None, or the (key, value) items of the dict.
NoneDict == [none |-> TRUE, items |-> {}]
Dict(items) == [none |-> FALSE, items |-> items]
Keys(d) == {kv[1] : kv \in d.items}
\* bool(d): None and the empty dict are falsy
Truthy(d) == ~d.none /\ d.items # {}

Reverse(s) == [i \in 1..Len(s) |-> s[Len(s) + 1 - i]]

\* the concatenation of a sequence of sequences (halving keeps the
\* recursion shallow)
RECURSIVE Concat(_)
Concat(ss) ==
    IF ss = <<>> THEN <<>>
    ELSE IF Len(ss) = 1 THEN ss[1]
    ELSE LET h == Len(ss) \div 2
         IN Concat(SubSeq(ss, 1, h)) \o Concat(SubSeq(ss, h + 1, Len(ss)))

Range(s) == {s[i] : i \in DOMAIN s}

\* the elements of s in the order of their first occurrence
FirstOccurrences(s) ==
    LET first == SelectSeq([i \in 1..Len(s) |-> i],
                           LAMBDA i : \A j \in 1..(i - 1) : s[j] # s[i])
    IN [k \in 1..Len(first) |-> s[first[k]]]

RECURSIVE Orderings(_)
Orderings(S) ==
    IF S = {} THEN {<<>>}
    ELSE UNION {{<<x>> \o p : p \in Orderings(S \ {x})} : x \in S}

\* list({...}): the distinct elements of s as a list. The iteration order of a
\* set of strings is not fixed: small sets are listed in every order, larger
\* ones in first-occurrence order and in its reverse.
ListOfSet(s) ==
    LET d == FirstOccurrences(s)
    IN IF Len(d) <= MaxPermute THEN Orderings(Range(d)) ELSE {d, Reverse(d)}

(***************************************************************************)
(* The venue behind BetfairClient                                          *)
(***************************************************************************)
NavSizes == {0, 3, CHUNK_SIZE + 1}
\* navigations of a single chunk
SmallNavSizes == {0, 3}
Currencies == {"GBP"}

MarketIdOf(i) == "1." \o ToString(i)
EventNameOf(i) == IF i <= 2 THEN "Test" ELSE "Other"

\* runners of a raw market catalogue: market 1 has runners A (handicap "0")
\* and B (handicap "-0.5"), market 3 has none
RunnersOf(i) ==
    CASE i = 1 -> <<[selectionId |-> "A", runnerName |-> "Runner A", handicap |-> "0"],
                    [selectionId |-> "B", runnerName |-> "Runner B", handicap |-> "-0.5"]>>
      [] i = 2 -> <<[selectionId |-> "A", runnerName |-> "Runner A", handicap |-> ""]>>
      [] i = 3 -> <<>>
      [] OTHER -> <<[selectionId |-> "A", runnerName |-> "Runner A", handicap |-> "0.0"]>>

RawCatalogue ==
    [i \in 1..(MaxMarkets + 1) |->
        [marketId |-> MarketIdOf(i), eventName |-> EventNameOf(i), runners |-> RunnersOf(i)]]

MarketIndex == [id \in {MarketIdOf(i) : i \in 1..(MaxMarkets + 1)} |->
                   CHOOSE i \in 1..(MaxMarkets + 1) : MarketIdOf(i) = id]

\* client.list_navigation(): the leaves of the navigation tree; market 1 is
\* reachable by two paths of the tree
Leaf(i) == [market_id |-> MarketIdOf(i), event_name |-> EventNameOf(i)]
list_navigation(n) ==
    IF n = 0 THEN <<>> ELSE [i \in 1..n |-> Leaf(i)] \o <<Leaf(1)>>

\* client.list_market_catalogue(filter_={"marketIds": ids}, ...)
\* in the "renamed" edition of the venue's data the event of market 1.1 has
\* another name
Editions == {"listed", "renamed"}
Edition(raw, edition) ==
    IF edition = "renamed" /\ raw.marketId = MarketIdOf(1)
    THEN [raw EXCEPT !.eventName = "Test v Test"]
    ELSE raw
list_market_catalogue(ids, edition) ==
    [i \in 1..Len(ids) |-> Edition(RawCatalogue[MarketIndex[ids[i]]], edition)]

\* navigation_to_flatten_markets(navigation, **market_filter)
navigation_to_flatten_markets(navigation, flt) ==
    SelectSeq(navigation, LAMBDA m : \A kv \in flt.items : m[kv[1]] = kv[2])

(***************************************************************************)
(* Parsing and mapping                                                     *)
(***************************************************************************)
\* parse_handicap(x): one textual form for every spelling of a handicap
parse_handicap(x) ==
    CASE x \in {None, "", "0", "0.0"} -> "0.0"
      [] x \in {"-0.5", "-.5"} -> "-0.5"
      [] OTHER -> x

Min(a, b) == IF a <= b THEN a ELSE b

\* chunk(list_like, n): list_like[i : i + n] for i in range(0, len(list_like), n)
chunk(list_like, n) ==
    [c \in 1..((Len(list_like) + n - 1) \div n) |->
        SubSeq(list_like, (c - 1) * n + 1, Min(c * n, Len(list_like)))]

\* bf_decode(raw, type=list[MarketCatalogue]) of one encoded catalogue
DecodeCatalogue(raw) ==
    [type |-> "MarketCatalogue",
     market_id |-> raw.marketId,
     event_name |-> raw.eventName,
     runners |-> [i \in 1..Len(raw.runners) |->
                     [runner_id |-> raw.runners[i].selectionId,
                      runner_name |-> raw.runners[i].runnerName,
                      handicap |-> raw.runners[i].handicap]]]

parse_market_catalog(catalog) == [i \in 1..Len(catalog) |-> DecodeCatalogue(catalog[i])]

\* BettingInstrument(...): the fields the provider reads back
BettingInstrument(market_id, event_name, selection_id, selection_name, handicap, cur, now) ==
    [market_id |-> market_id,
     event_name |-> event_name,
     selection_id |-> selection_id,
     selection_name |-> selection_name,
     selection_handicap |-> handicap,
     currency |-> cur,
     ts_init |-> now]

\* instrument.id: the symbol made of the descriptive fields of the event and
\* the market, of the selection and of the handicap
InstrumentIdOf(ins) ==
    <<ins.event_name, ins.market_id, ins.selection_id, ins.selection_handicap>>

\* selection identifiers are held in their string form, str(runner.runner_id)

\* variant: the loop returns after the first runner
market_catalog_to_instrumentsFirstOnly(market_catalog, cur, now) ==
    [i \in 1..Min(1, Len(market_catalog.runners)) |->
        BettingInstrument(market_catalog.market_id,
                          market_catalog.event_name,
                          market_catalog.runners[i].runner_id,
                          market_catalog.runners[i].runner_name,
                          parse_handicap(market_catalog.runners[i].handicap),
                          cur, now)]

market_catalog_to_instruments(market_catalog, cur, now) ==
    [i \in 1..Len(market_catalog.runners) |->
        BettingInstrument(market_catalog.market_id,
                          market_catalog.event_name,
                          market_catalog.runners[i].runner_id,
                          market_catalog.runners[i].runner_name,
                          parse_handicap(market_catalog.runners[i].handicap),
                          cur, now)]

\* runner.selection_id or runner.id
SelectionOrId(runner) ==
    IF runner.selection_id # None THEN runner.selection_id ELSE runner.id

\* runner.name or ""
NameOrEmpty(runner) == IF runner.name # None THEN runner.name ELSE ""

\* variant: the handicap of a definition is taken as sent
market_definition_to_instrumentsRawHandicap(market_definition, cur, now) ==
    [i \in 1..Len(market_definition.runners) |->
        BettingInstrument(market_definition.market_id,
                          market_definition.event_name,
                          SelectionOrId(market_definition.runners[i]),
                          NameOrEmpty(market_definition.runners[i]),
                          market_definition.runners[i].hc,
                          cur, now)]

market_definition_to_instruments(market_definition, cur, now) ==
    [i \in 1..Len(market_definition.runners) |->
        BettingInstrument(market_definition.market_id,
                          market_definition.event_name,
                          SelectionOrId(market_definition.runners[i]),
                          NameOrEmpty(market_definition.runners[i]),
                          parse_handicap(market_definition.runners[i].hc),
                          cur, now)]

\* variant: a record of unknown shape yields no instrument
make_instrumentsSilent(market, cur, now) ==
    IF market.type = "MarketCatalogue"
    THEN [raised |-> None, blamed |-> None,
          value |-> market_catalog_to_instruments(market, cur, now)]
    ELSE IF market.type = "MarketDefinition"
    THEN [raised |-> None, blamed |-> None,
          value |-> market_definition_to_instruments(market, cur, now)]
    ELSE [raised |-> None, blamed |-> None, value |-> <<>>]

\* make_instruments: the instruments of one record, or the TypeError raised
make_instruments(market, cur, now) ==
    IF market.type = "MarketCatalogue"
    THEN [raised |-> None, blamed |-> None,
          value |-> market_catalog_to_instruments(market, cur, now)]
    ELSE IF market.type = "MarketDefinition"
    THEN [raised |-> None, blamed |-> None,
          value |-> market_definition_to_instruments(market, cur, now)]
    ELSE \* raise TypeError(type(market))
         [raised |-> "TypeError", blamed |-> market.type, value |-> <<>>]

\* [instrument for metadata in market_metadata
\*             for instrument in make_instruments(metadata, currency=currency)]
CreateInstruments(metadata, cur, now) ==
    LET made == [i \in 1..Len(metadata) |-> make_instruments(metadata[i], cur, now)]
    IN IF \E i \in 1..Len(made) : made[i].raised # None
       THEN [raised |-> "TypeError", value |-> <<>>]
       ELSE [raised |-> None, value |-> Concat([i \in 1..Len(made) |-> made[i].value])]

(***************************************************************************)
(* The registry of InstrumentProvider                                      *)
(***************************************************************************)
\* self.add(instrument): self._instruments[instrument.id] = instrument
add(reg, instrument) ==
    IF \E i \in DOMAIN reg : InstrumentIdOf(reg[i]) = InstrumentIdOf(instrument)
    THEN [i \in DOMAIN reg |->
             IF InstrumentIdOf(reg[i]) = InstrumentIdOf(instrument) THEN instrument ELSE reg[i]]
    ELSE Append(reg, instrument)

\* for instrument in instruments: self.add(instrument=instrument)
RECURSIVE AddEach(_, _)
AddEach(reg, new) ==
    IF new = <<>> THEN reg
    ELSE IF Len(new) = 1 THEN add(reg, new[1])
    ELSE LET h == Len(new) \div 2
             first == AddEach(reg, SubSeq(new, 1, h))
         IN \* the test makes TLC evaluate the first half before the second
            IF Len(first) >= Len(reg)
            THEN AddEach(first, SubSeq(new, h + 1, Len(new)))
            ELSE first

\* self.list_all()
list_all(reg) == reg

\* variant: any() in place of all()
MatchesAny(ins, instrument_filter) == \E kv \in instrument_filter.items : ins[kv[1]] = kv[2]

\* all(getattr(ins, k) == v for k, v in instrument_filter.items())
Matches(ins, instrument_filter) == \A kv \in instrument_filter.items : ins[kv[1]] = kv[2]

search_instruments(reg, instrument_filter) ==
    IF Truthy(instrument_filter)
    THEN SelectSeq(list_all(reg), LAMBDA ins : Matches(ins, instrument_filter))
    ELSE list_all(reg)

(***************************************************************************)
(* The navigation fetch: load_markets                                      *)
(***************************************************************************)
VALID_MARKET_FILTER_KEYS ==
    {"event_type_name", "event_type_id", "event_name", "event_id", "event_countryCode",
     "market_name", "market_id", "market_exchangeId", "market_marketType",
     "market_marketStartTime", "market_numberOfWinners"}

\* attributes of a FlattenedMarket the model carries
FlattenedMarketAttrs == {"market_id", "event_name"}

\* if isinstance(market_filter, dict): drop selection_id and selection_handicap
\* variant: the selection keys are kept
DropSelectionKeysKept(flt) == flt

\* the dict comprehension of load_markets
DropSelectionKeys(flt) ==
    IF flt.none THEN flt
    ELSE Dict({kv \in flt.items : kv[1] \notin {"selection_id", "selection_handicap"}})

\* assert all(k in VALID_MARKET_FILTER_KEYS for k in (market_filter or []))
ValidFilter(flt) == \A k \in Keys(flt) : k \in VALID_MARKET_FILTER_KEYS

\* market_filter or self._filters
Or(a, b) == IF Truthy(a) THEN a ELSE b

Call(fn, ids) == [fn |-> fn, ids |-> ids]

\* variant: the navigation fetched by an earlier invocation is reused
EnterLoadMarketsCached(flt, issued) ==
    LET dropped == DropSelectionKeys(flt)
    IN IF ValidFilter(dropped)
       THEN [pc |-> "await_navigation", outcome |-> "running",
             calls |-> IF nOps > 0 THEN issued
                       ELSE Append(issued, Call("list_navigation", <<>>)),
             market_filter |-> dropped]
       ELSE [pc |-> "idle", outcome |-> "AssertionError", calls |-> issued,
             market_filter |-> NoneDict]

\* load_markets from its entry to its await: the assertion fails, or
\* client.list_navigation() is called
EnterLoadMarkets(flt, issued) ==
    LET dropped == DropSelectionKeys(flt)
    IN IF ValidFilter(dropped)
       THEN [pc |-> "await_navigation", outcome |-> "running",
             calls |-> Append(issued, Call("list_navigation", <<>>)),
             market_filter |-> dropped]
       ELSE [pc |-> "idle", outcome |-> "AssertionError", calls |-> issued,
             market_filter |-> NoneDict]

(***************************************************************************)
(* The metadata fetch: load_markets_metadata                               *)
(***************************************************************************)
\* list({m.market_id for m in markets})
MarketIdLists(flat) == ListOfSet([i \in 1..Len(flat) |-> flat[i].market_id])

\* variant: a chunk one element too long
MarketIdChunksOversized(ids) == chunk(ids, CHUNK_SIZE + 1)

\* chunk(list(...), 50)
MarketIdChunks(ids) == chunk(ids, CHUNK_SIZE)

\* variant: the requests of all chunks are issued together
RequestAll(cs) ==
    [issued |-> [c \in 1..Len(cs) |-> Call("list_market_catalogue", cs[c])], rest |-> <<>>]

\* one turn of the for loop: the request of the next chunk is awaited
RequestNext(cs) ==
    [issued |-> <<Call("list_market_catalogue", Head(cs))>>, rest |-> Tail(cs)]

\* all_results.extend(results)
Extend(all, results) == all \o results

\* variant: a load replaces the registry by the instruments it created
FinishLoadAllReplacing(results, cur, now, reg) ==
    LET metadata == parse_market_catalog(results)
        created == CreateInstruments(metadata, cur, now)
    IN [market_metadata |-> metadata,
        outcome |-> IF created.raised = None THEN "ok" ELSE created.raised,
        instruments |-> IF created.raised = None THEN AddEach(<<>>, created.value) ELSE reg,
        added |-> IF created.raised = None
                  THEN [i \in 1..Len(created.value) |-> InstrumentIdOf(created.value[i])]
                  ELSE <<>>]

\* load_all_async after load_markets_metadata has returned: the instruments are
\* created and added
CreateAndAdd(metadata, cur, now, reg) ==
    LET created == CreateInstruments(metadata, cur, now)
    IN [market_metadata |-> metadata,
        outcome |-> IF created.raised = None THEN "ok" ELSE created.raised,
        instruments |-> IF created.raised = None THEN AddEach(reg, created.value) ELSE reg,
        added |-> IF created.raised = None
                  THEN [i \in 1..Len(created.value) |-> InstrumentIdOf(created.value[i])]
                  ELSE <<>>]

\* load_all_async from the return of load_markets_metadata to its end
FinishLoadAll(results, cur, now, reg) ==
    CreateAndAdd(parse_market_catalog(results), cur, now, reg)

(***************************************************************************)
(* The memoised lookup: get_betting_instrument                             *)
(***************************************************************************)
\* key = (market_id, selection_id, handicap)
CacheKey(market_id, selection_id, handicap) == <<market_id, selection_id, handicap>>

InstrumentFilter(market_id, selection_id, handicap) ==
    Dict({<<"market_id", market_id>>, <<"selection_id", selection_id>>,
          <<"selection_handicap", parse_handicap(handicap)>>})

\* variant: the missing set is keyed by the handicap as passed
MissingKeyUnparsed(market_id, selection_id, handicap) ==
    <<market_id, selection_id, handicap>>

\* key = (market_id, selection_id, parse_handicap(handicap))
MissingKey(market_id, selection_id, handicap) ==
    <<market_id, selection_id, parse_handicap(handicap)>>

\* variant: the warning is logged whenever nothing is found
NotYetMissingAlways(missing_set, key) == TRUE

\* if key not in self._missing_instruments
NotYetMissing(missing_set, key) == key \notin missing_set

\* variant: the memo is never consulted
IsCachedNever(c, key) == FALSE

\* if key not in self._cache
IsCached(c, key) == key \in DOMAIN c

\* variant: the last match is taken
LastMatch(found) == found[Len(found)]

\* instruments[0]
FirstMatch(found) == found[1]

\* self._cache[key] = instruments[0]
Memoize(c, key, instrument) == (key :> instrument) @@ c

NoInstrument ==
    [market_id |-> None, event_name |-> None, selection_id |-> None,
     selection_name |-> None, selection_handicap |-> None, currency |-> None, ts_init |-> 0]

NoResolve == [called |-> FALSE, args |-> <<None, None, None>>, scanned |-> FALSE,
              count |-> 0, found |-> FALSE, warned |-> FALSE, result |-> NoInstrument]
NoSearch == [called |-> FALSE, filter |-> NoneDict, result |-> <<>>]

(***************************************************************************)
(* Inputs                                                                  *)
(***************************************************************************)
ProviderFilters == {NoneDict, Dict({})}

MarketFilters ==
    {NoneDict,
     Dict({<<"market_id", "1.1">>}),
     Dict({<<"event_name", "Test">>, <<"selection_id", "A">>}),
     Dict({<<"event_name", "Test">>, <<"bogus", "x">>})}

ResolveArgs ==
    {<<"1.1", "A", "0">>, <<"1.1", "A", "0.0">>, <<"1.2", "B", "0">>}

InstrumentFilters ==
    {NoneDict, Dict({}),
     Dict({<<"market_id", "1.1">>}),
     Dict({<<"market_id", "1.1">>, <<"selection_id", "A">>})}

(***************************************************************************)
(* State machine                                                           *)
(***************************************************************************)
Awaits == {"await_account", "await_navigation", "await_catalogue"}

InitProvider ==
    /\ filters \in ProviderFilters
    /\ instruments = <<>>
    /\ cache = [k \in {} |-> NoInstrument]
    /\ account_currency = None
    /\ missing_instruments = {}
    /\ pc = "idle"
    /\ op = None
    /\ argument = NoneDict
    /\ market_filter = NoneDict
    /\ currency = None
    /\ chunks = <<>>
    /\ all_results = <<>>
    /\ calls = <<>>
    /\ responses = <<>>
    /\ markets = <<>>
    /\ market_metadata = <<>>
    /\ added = <<>>
    /\ outcome = None
    /\ ret = None
    /\ regAtStart = <<>>
    /\ nOps = 0
    /\ accountCalls = 0
    /\ accountReturns = 0
    /\ clock = 1
    /\ lastResolve = NoResolve
    /\ prevResolve = NoResolve
    /\ warnings = <<>>
    /\ nResolves = 0
    /\ lastSearch = NoSearch

NoRecord == [type |-> None, market_id |-> None, event_name |-> None, runners |-> <<>>]
NotMade == [called |-> FALSE, raised |-> None, blamed |-> None, value |-> <<>>]
NoUpdate == [called |-> FALSE, kwargs |-> NoneDict, before |-> <<>>, raised |-> None,
             message |-> None, returned |-> None]
NoReplace == [called |-> FALSE, kwargs |-> NoneDict, receiver |-> None, before |-> <<>>,
              raised |-> None, returned |-> [id |-> None, fields |-> <<>>]]
NoInspect == [called |-> FALSE, fields |-> <<>>, ignore |-> NoneDict, is_partial |-> FALSE,
              repr |-> None, check |-> [raised |-> None, message |-> None]]

\* the mapper, the strategy and the configuration before they are used
InitOthers ==
    /\ records = [catalogue |-> NoRecord, definition |-> NoRecord, other |-> NoRecord,
                  currency |-> None]
    /\ outputs = [catalogue |-> NotMade, definition |-> NotMade, other |-> NotMade]
    /\ counter = 0
    /\ signals = <<>>
    /\ ticks = <<>>
    /\ subscribed = FALSE
    /\ config = [id |-> None, fields |-> <<>>]
    /\ last_update = NoUpdate
    /\ last_replace = NoReplace
    /\ last_inspect = NoInspect

Init == InitProvider /\ InitOthers

\* variant: the memoised currency is never used
CurrencyMemoisedNever(cur) == FALSE

\* if self._account_currency is None
CurrencyMemoised(cur) == cur # None

\* a coroutine is started: its frame is fresh
Started(name) ==
    /\ pc = "idle"
    /\ nOps < MaxOps
    /\ nOps' = nOps + 1
    /\ op' = name
    /\ regAtStart' = instruments
    /\ all_results' = <<>>
    /\ responses' = <<>>
    /\ market_metadata' = <<>>
    /\ added' = <<>>
    /\ lastSearch' = NoSearch
    /\ UNCHANGED <<filters, instruments, cache, missing_instruments,
                   accountReturns, clock, lastResolve, prevResolve, warnings, nResolves>>
    /\ UNCHANGED others

\* await self.get_account_currency(), first line of load_all_async
load_all_async(arg) ==
    /\ Started("load_all_async")
    /\ argument' = arg
    /\ IF ~CurrencyMemoised(account_currency)
       THEN /\ pc' = "await_account"
            /\ outcome' = "running"
            /\ calls' = <<Call("get_account_details", <<>>)>>
            /\ accountCalls' = accountCalls + 1
            /\ currency' = None
            /\ market_filter' = arg
       ELSE LET r == EnterLoadMarkets(Or(arg, filters), <<>>)
            IN /\ pc' = r.pc
               /\ outcome' = r.outcome
               /\ calls' = r.calls
               /\ market_filter' = r.market_filter
               /\ currency' = IF r.pc = "idle" THEN None ELSE account_currency
               /\ accountCalls' = accountCalls
    /\ markets' = <<>>
    /\ chunks' = <<>>
    /\ UNCHANGED <<account_currency, ret>>

\* provider.load_markets(market_filter)
load_markets(arg) ==
    /\ Started("load_markets")
    /\ argument' = arg
    /\ LET r == EnterLoadMarkets(arg, <<>>)
       IN /\ pc' = r.pc
          /\ outcome' = r.outcome
          /\ calls' = r.calls
          /\ market_filter' = r.market_filter
    /\ markets' = <<>>
    /\ chunks' = <<>>
    /\ UNCHANGED <<account_currency, currency, accountCalls, ret>>

\* provider.get_account_currency()
get_account_currency ==
    /\ Started("get_account_currency")
    /\ argument' = NoneDict
    /\ IF ~CurrencyMemoised(account_currency)
       THEN /\ pc' = "await_account"
            /\ outcome' = "running"
            /\ calls' = <<Call("get_account_details", <<>>)>>
            /\ accountCalls' = accountCalls + 1
            /\ UNCHANGED ret
       ELSE /\ pc' = "idle"
            /\ outcome' = "ok"
            /\ calls' = <<>>
            /\ accountCalls' = accountCalls
            /\ ret' = account_currency
    /\ markets' = <<>>
    /\ chunks' = <<>>
    /\ UNCHANGED <<account_currency, currency, market_filter>>

\* load_markets_metadata(client, markets) from its entry to its first await, or
\* to its end when there is no chunk
load_markets_metadata(flat) ==
    /\ Started("load_markets_metadata")
    /\ argument' = NoneDict
    /\ markets' = flat
    /\ \E ids \in MarketIdLists(flat) :
          LET cs == MarketIdChunks(ids)
          IN IF cs = <<>>
             THEN /\ pc' = "idle"
                  /\ outcome' = "ok"
                  /\ calls' = <<>>
                  /\ chunks' = <<>>
             ELSE /\ pc' = "await_catalogue"
                  /\ outcome' = "running"
                  /\ calls' = RequestNext(cs).issued
                  /\ chunks' = RequestNext(cs).rest
    /\ UNCHANGED <<account_currency, currency, market_filter, accountCalls, ret>>

\* client.get_account_details() returns: the currency code is memoised
AccountDetailsReturn(cur) ==
    /\ pc = "await_account"
    /\ account_currency' = cur
    /\ accountReturns' = accountReturns + 1
    /\ IF op = "get_account_currency"
       THEN /\ pc' = "idle"
            /\ outcome' = "ok"
            /\ ret' = cur
            /\ UNCHANGED <<calls, market_filter, currency>>
       ELSE LET r == EnterLoadMarkets(Or(market_filter, filters), calls)
            IN /\ pc' = r.pc
               /\ outcome' = r.outcome
               /\ calls' = r.calls
               /\ market_filter' = r.market_filter
               /\ currency' = IF r.pc = "idle" THEN None ELSE cur
               /\ UNCHANGED ret
    /\ lastSearch' = NoSearch
    /\ UNCHANGED <<filters, instruments, cache, missing_instruments, op, argument,
                   chunks, all_results, responses, markets, market_metadata, added,
                   regAtStart,
                   nOps, accountCalls, clock, lastResolve, prevResolve, warnings, nResolves>>
    /\ UNCHANGED others

\* client.list_navigation() returns: the markets are flattened; load_markets
\* returns them, load_all_async goes on into load_markets_metadata up to its
\* first await, or to its end when there is no chunk
NavigationReturn(n) ==
    /\ pc = "await_navigation"
    /\ IF market_filter.none \/ ~(Keys(market_filter) \subseteq FlattenedMarketAttrs)
       THEN \* navigation_to_flatten_markets(navigation, **market_filter) raises
            /\ pc' = "idle"
            /\ outcome' = "TypeError"
            /\ UNCHANGED <<markets, calls, chunks, market_metadata, instruments, added, clock>>
       ELSE LET flat == navigation_to_flatten_markets(list_navigation(n), market_filter)
            IN /\ markets' = flat
               /\ IF op = "load_markets"
                  THEN /\ pc' = "idle"
                       /\ outcome' = "ok"
                       /\ UNCHANGED <<calls, chunks, market_metadata, instruments, added, clock>>
                  ELSE \E ids \in MarketIdLists(flat) :
                          LET cs == MarketIdChunks(ids)
                              f == FinishLoadAll(<<>>, currency, clock, instruments)
                          IN IF cs = <<>>
                             THEN /\ pc' = "idle"
                                  /\ outcome' = f.outcome
                                  /\ market_metadata' = f.market_metadata
                                  /\ instruments' = f.instruments
                                  /\ added' = f.added
                                  /\ clock' = clock + 1
                                  /\ UNCHANGED <<calls, chunks>>
                             ELSE /\ pc' = "await_catalogue"
                                  /\ outcome' = "running"
                                  /\ calls' = calls \o RequestNext(cs).issued
                                  /\ chunks' = RequestNext(cs).rest
                                  /\ UNCHANGED <<market_metadata, instruments, added, clock>>
    /\ market_filter' = IF pc' = "idle" THEN NoneDict ELSE market_filter
    /\ currency' = IF pc' = "idle" THEN None ELSE currency
    /\ lastSearch' = NoSearch
    /\ UNCHANGED <<filters, cache, account_currency, missing_instruments, op, argument,
                   all_results, responses, ret, regAtStart, nOps, accountCalls,
                   accountReturns, lastResolve, prevResolve, warnings, nResolves>>
    /\ UNCHANGED others

\* client.list_market_catalogue(...) returns: the next chunk is requested, or
\* load_markets_metadata returns and load_all_async runs to its end
CatalogueReturn(edition) ==
    /\ pc = "await_catalogue"
    /\ LET results == list_market_catalogue(calls[Len(calls)].ids, edition)
           all == Extend(all_results, results)
           f == FinishLoadAll(all, currency, clock, instruments)
       IN /\ responses' = Append(responses, results)
          /\ IF chunks # <<>>
             THEN /\ pc' = "await_catalogue"
                  /\ outcome' = "running"
                  /\ calls' = calls \o RequestNext(chunks).issued
                  /\ chunks' = RequestNext(chunks).rest
                  /\ all_results' = all
                  /\ UNCHANGED <<market_metadata, instruments, added, clock, market_filter,
                                 currency>>
             ELSE /\ pc' = "idle"
                  /\ all_results' = <<>>
                  /\ market_filter' = NoneDict
                  /\ currency' = None
                  /\ UNCHANGED <<calls, chunks>>
                  /\ IF op = "load_markets_metadata"
                     THEN /\ outcome' = "ok"
                          /\ market_metadata' = parse_market_catalog(all)
                          /\ UNCHANGED <<instruments, added, clock>>
                     ELSE /\ outcome' = f.outcome
                          /\ market_metadata' = f.market_metadata
                          /\ instruments' = f.instruments
                          /\ added' = f.added
                          /\ clock' = clock + 1
    /\ lastSearch' = NoSearch
    /\ UNCHANGED <<filters, cache, account_currency, missing_instruments, op, argument,
                   markets, ret, regAtStart, nOps, accountCalls, accountReturns,
                   lastResolve, prevResolve, warnings, nResolves>>
    /\ UNCHANGED others

\* variant: the instruments of the chunks received so far are added before
\* the exception leaves load_all_async
RegistryAfterRaiseKeepsPartial(reg, partial, cur, now) ==
    FinishLoadAll(partial, cur, now, reg).instruments

\* variant: the first instrument created from the chunks received so far is
\* added before the exception leaves load_all_async
RegistryAfterRaiseKeepsFirst(reg, partial, cur, now) ==
    LET created == CreateInstruments(parse_market_catalog(partial), cur, now).value
    IN IF created = <<>> THEN reg ELSE add(reg, created[1])

\* the registry after an exception has left load_all_async: the results of the
\* chunks received so far were locals of load_markets_metadata and are gone
RegistryAfterRaise(reg, partial, cur, now) == reg

\* the awaited call raises, or the coroutine is cancelled while it waits: the
\* exception leaves load_markets_metadata, load_markets and load_all_async,
\* none of which catches it
Raised(error) ==
    /\ pc \in Awaits
    /\ pc' = "idle"
    /\ outcome' = error
    /\ market_filter' = NoneDict
    /\ currency' = None
    /\ chunks' = <<>>
    /\ all_results' = <<>>
    /\ lastSearch' = NoSearch
    /\ instruments' = RegistryAfterRaise(instruments, all_results, currency, clock)
    /\ UNCHANGED <<filters, cache, account_currency, missing_instruments, op, argument,
                   calls, responses, markets, market_metadata, added, ret, regAtStart,
                   nOps, accountCalls, accountReturns, clock, lastResolve, prevResolve,
                   warnings, nResolves>>
    /\ UNCHANGED others

RemoteCallFails == Raised("RemoteCallError")

Cancelled == Raised("CancelledError")

\* provider.get_betting_instrument(market_id, selection_id, handicap)
get_betting_instrument(market_id, selection_id, handicap) ==
    /\ nResolves < MaxResolves
    /\ nResolves' = nResolves + 1
    /\ LET key == CacheKey(market_id, selection_id, handicap)
           hit == IsCached(cache, key)
           instrument_filter == InstrumentFilter(market_id, selection_id, handicap)
           found == search_instruments(instruments, instrument_filter)
           miss == ~hit /\ Len(found) < 1
           missing == MissingKey(market_id, selection_id, handicap)
           warn == miss /\ NotYetMissing(missing_instruments, missing)
       IN /\ cache' = IF hit \/ miss THEN cache ELSE Memoize(cache, key, FirstMatch(found))
          /\ missing_instruments' =
                IF warn THEN missing_instruments \cup {missing} ELSE missing_instruments
          /\ warnings' = IF warn THEN Append(warnings, instrument_filter) ELSE warnings
          /\ lastResolve' = [called |-> TRUE,
                             args |-> <<market_id, selection_id, handicap>>,
                             scanned |-> ~hit,
                             count |-> IF hit THEN 0 ELSE Len(found),
                             found |-> ~miss,
                             warned |-> warn,
                             result |-> IF miss THEN NoInstrument ELSE cache'[key]]
          /\ prevResolve' = lastResolve
    /\ lastSearch' = NoSearch
    /\ UNCHANGED <<filters, instruments, account_currency, pc, op, argument, frame,
                   calls, outcome, ret, regAtStart, nOps, accountCalls, accountReturns, clock>>
    /\ UNCHANGED others

\* provider.search_instruments(instrument_filter)
Search(instrument_filter) ==
    /\ lastSearch' = [called |-> TRUE, filter |-> instrument_filter,
                      result |-> search_instruments(instruments, instrument_filter)]
    /\ UNCHANGED <<provider, pc, op, argument, frame, calls, outcome, ret, regAtStart, nOps,
                   accountCalls, accountReturns, clock, lastResolve, prevResolve, warnings,
                   nResolves>>
    /\ UNCHANGED others

Next ==
    \/ \E arg \in MarketFilters : load_all_async(arg)
    \/ \E arg \in MarketFilters : load_markets(arg)
    \/ get_account_currency
    \/ \E cur \in Currencies : AccountDetailsReturn(cur)
    \/ \E n \in NavSizes : NavigationReturn(n)
    \/ CatalogueReturn("listed")
    \/ RemoteCallFails
    \/ Cancelled
    \/ \E args \in ResolveArgs : get_betting_instrument(args[1], args[2], args[3])
    \/ \E flt \in InstrumentFilters : Search(flt)

Spec == Init /\ [][Next]_vars

\* the coroutines alone, without the synchronous readers
NextLoad ==
    \/ \E arg \in MarketFilters : load_all_async(arg)
    \/ \E arg \in MarketFilters : load_markets(arg)
    \/ get_account_currency
    \/ \E cur \in Currencies : AccountDetailsReturn(cur)
    \/ \E n \in NavSizes : NavigationReturn(n)
    \/ CatalogueReturn("listed")
    \/ RemoteCallFails
    \/ Cancelled

SpecLoad == Init /\ [][NextLoad]_vars

\* one call of load_markets_metadata on a list of flattened markets
MetadataInputs == {list_navigation(n) : n \in 0..MaxMarkets}

NextBatch ==
    \/ \E flat \in MetadataInputs : nOps = 0 /\ load_markets_metadata(flat)
    \/ CatalogueReturn("listed")
    \/ RemoteCallFails
    \/ Cancelled

SpecBatch == Init /\ [][NextBatch]_vars

\* load_all_async and the memoised lookup, on navigations of a single chunk.
\* The lookup reads the registry and writes only the memo, the missing set and
\* the log; the coroutines write none of these.
NextResolve ==
    \/ \E arg \in MarketFilters : load_all_async(arg)
    \/ \E cur \in Currencies : AccountDetailsReturn(cur)
    \/ \E n \in SmallNavSizes : NavigationReturn(n)
    \/ CatalogueReturn("listed")
    \/ RemoteCallFails
    \/ Cancelled
    \/ \E args \in ResolveArgs : get_betting_instrument(args[1], args[2], args[3])

SpecResolve == Init /\ [][NextResolve]_vars

\* load_all_async and the search
NextSearch ==
    \/ \E arg \in MarketFilters : load_all_async(arg)
    \/ \E cur \in Currencies : AccountDetailsReturn(cur)
    \/ \E n \in NavSizes : NavigationReturn(n)
    \/ CatalogueReturn("listed")
    \/ RemoteCallFails
    \/ Cancelled
    \/ \E flt \in InstrumentFilters : Search(flt)

SpecSearch == Init /\ [][NextSearch]_vars

\* an in-flight load_all_async of one or two chunks with the synchronous
\* readers interleaved at its suspension points
ReaderNavSizes == {3, CHUNK_SIZE + 1}
ReaderMarketFilters == {NoneDict, Dict({<<"market_id", "1.1">>})}
ReaderResolveArgs == {<<"1.1", "A", "0">>}
ReaderInstrumentFilters == {NoneDict, Dict({<<"market_id", "1.1">>})}

NextReaders ==
    \/ \E arg \in ReaderMarketFilters : load_all_async(arg)
    \/ \E cur \in Currencies : AccountDetailsReturn(cur)
    \/ \E n \in ReaderNavSizes : NavigationReturn(n)
    \/ CatalogueReturn("listed")
    \/ RemoteCallFails
    \/ Cancelled
    \/ \E args \in ReaderResolveArgs : get_betting_instrument(args[1], args[2], args[3])
    \/ \E flt \in ReaderInstrumentFilters : Search(flt)

SpecReaders == Init /\ [][NextReaders]_vars

\* load_markets invoked again and again with one filter
FetchNavSizes == NavSizes \cup {1, 2}
FetchFilters ==
    MarketFilters \cup
    {Dict({}),
     Dict({<<"market_id", "1.2">>}),
     Dict({<<"market_id", "1.3">>, <<"event_name", "Other">>}),
     Dict({<<"event_name", "Other">>}),
     Dict({<<"market_id", "1.1">>, <<"selection_handicap", "0">>}),
     Dict({<<"selection_id", "A">>, <<"selection_handicap", "0">>})}

NextNavigation ==
    \/ \E arg \in FetchFilters : (nOps = 0 \/ arg = argument) /\ load_markets(arg)
    \/ \E n \in FetchNavSizes : NavigationReturn(n)
    \/ RemoteCallFails
    \/ Cancelled

SpecNavigation == Init /\ [][NextNavigation]_vars

\* loads of market 1.1 from a venue that renames its event between two loads,
\* and the memoised lookup
AmbiguousMarketFilters == {Dict({<<"market_id", "1.1">>})}

NextAmbiguous ==
    \/ \E arg \in AmbiguousMarketFilters : load_all_async(arg)
    \/ \E cur \in Currencies : AccountDetailsReturn(cur)
    \/ \E n \in SmallNavSizes : NavigationReturn(n)
    \/ \E edition \in Editions : CatalogueReturn(edition)
    \/ RemoteCallFails
    \/ Cancelled
    \/ \E args \in ResolveArgs : get_betting_instrument(args[1], args[2], args[3])

SpecAmbiguous == Init /\ [][NextAmbiguous]_vars

(***************************************************************************)
(* The mapper on its own: make_instruments on records of every shape       *)
(***************************************************************************)
MaxRunners == 2     \* runners of one metadata record

RawHandicaps == {None, "0", "-0.5"}
SeqsUpTo(S, n) == UNION {[1..k -> S] : k \in 0..n}

CatalogueRunners ==
    {[runner_id |-> "A", runner_name |-> "Runner A", handicap |-> h] : h \in RawHandicaps}
DefinitionRunners ==
    {[selection_id |-> "A", id |-> None, name |-> "Runner A", hc |-> h] :
        h \in RawHandicaps \ {None}}
    \cup {[selection_id |-> None, id |-> "B", name |-> None, hc |-> None]}

CatalogueRecords ==
    {[type |-> "MarketCatalogue", market_id |-> "1.1", event_name |-> "Test", runners |-> r] :
        r \in SeqsUpTo(CatalogueRunners, MaxRunners)}
DefinitionRecords ==
    {[type |-> "MarketDefinition", market_id |-> "1.1", event_name |-> "Test", runners |-> r] :
        r \in SeqsUpTo(DefinitionRunners, MaxRunners)}
\* a record of neither shape: the undecoded dict of a catalogue
UnknownRecords ==
    {[type |-> "dict", market_id |-> "1.1", event_name |-> "Test",
      runners |-> <<[runner_id |-> "A", runner_name |-> "Runner A", handicap |-> "0"]>>]}
MapperCurrencies == {"GBP", "AUD"}

InitMapper ==
    /\ InitProvider
    /\ filters = NoneDict
    /\ records \in [catalogue : CatalogueRecords, definition : DefinitionRecords,
                    other : UnknownRecords, currency : MapperCurrencies]
    /\ outputs = [catalogue |-> NotMade, definition |-> NotMade, other |-> NotMade]
    /\ counter = 0
    /\ signals = <<>>
    /\ ticks = <<>>
    /\ subscribed = FALSE
    /\ config = [id |-> None, fields |-> <<>>]
    /\ last_update = NoUpdate
    /\ last_replace = NoReplace
    /\ last_inspect = NoInspect

\* make_instruments(records[shape], currency=records.currency)
MakeInstruments(shape) ==
    /\ ~outputs[shape].called
    /\ LET r == make_instruments(records[shape], records.currency, clock)
       IN outputs' = [outputs EXCEPT ![shape] =
                        [called |-> TRUE, raised |-> r.raised, blamed |-> r.blamed,
                         value |-> r.value]]
    /\ UNCHANGED <<provider, pc, op, argument, frame, calls, outcome, ret, regAtStart, nOps,
                   accountCalls, accountReturns, clock, reads, records, strategy,
                   configuration>>

MetadataOrders ==
    {<<"catalogue">>, <<"catalogue", "definition">>, <<"catalogue", "other">>,
     <<"other", "catalogue">>, <<"definition", "other", "catalogue">>}

\* the end of load_all_async, from 'Creating instruments..', on a list of
\* metadata records; after the first cycle, on lists with a record of unknown
\* shape
CreateAndAddRecords(order) ==
    /\ pc = "idle"
    /\ \A shape \in DOMAIN outputs : outputs[shape].called
    /\ nOps < MaxOps
    /\ nOps = 0 \/ \E i \in DOMAIN order : order[i] = "other"
    /\ nOps' = nOps + 1
    /\ op' = "load_all_async"
    /\ regAtStart' = instruments
    /\ LET f == CreateAndAdd([i \in 1..Len(order) |-> records[order[i]]],
                             records.currency, clock, instruments)
       IN /\ market_metadata' = f.market_metadata
          /\ outcome' = f.outcome
          /\ instruments' = f.instruments
          /\ added' = f.added
    /\ clock' = clock + 1
    /\ UNCHANGED <<filters, cache, account_currency, missing_instruments, pc, argument,
                   market_filter, currency, chunks, all_results, responses, markets, calls,
                   ret, accountCalls, accountReturns, reads, mapper, strategy, configuration>>

NextMapper ==
    \/ \E shape \in {"catalogue", "definition", "other"} : MakeInstruments(shape)
    \/ \E order \in MetadataOrders : CreateAndAddRecords(order)

SpecMapper == InitMapper /\ [][NextMapper]_vars

(***************************************************************************)
(* SignalStrategy (examples/strategies/signal_strategy.py)                 *)
(***************************************************************************)
MaxTicks == 4       \* trade ticks delivered in one behaviour
MaxTsEvent == 3     \* largest ts_event of a tick

\* publish_signal(name, value, ts_event)
publish_signal(published, name, value, ts_event) ==
    Append(published, [name |-> name, value |-> value, ts_event |-> ts_event])

\* variant: the signal carries the counter as it was before the tick
SignalValueStale(before, after) == before

\* value=self.counter, read after self.counter += 1
SignalValue(before, after) == after

on_start ==
    /\ ~subscribed
    /\ subscribed' = TRUE
    /\ UNCHANGED <<provider, pc, op, argument, frame, calls, outcome, ret, regAtStart, nOps,
                   accountCalls, accountReturns, clock, reads, mapper, counter, signals,
                   ticks, configuration>>

on_trade_tick(ts_event) ==
    /\ Len(ticks) < MaxTicks
    /\ ticks' = Append(ticks, ts_event)
    /\ counter' = counter + 1
    /\ signals' = publish_signal(signals, "counter", SignalValue(counter, counter'), ts_event)
    /\ UNCHANGED <<provider, pc, op, argument, frame, calls, outcome, ret, regAtStart, nOps,
                   accountCalls, accountReturns, clock, reads, mapper, subscribed,
                   configuration>>

NextStrategy ==
    \/ on_start
    \/ \E ts_event \in 1..MaxTsEvent : on_trade_tick(ts_event)

SpecStrategy == Init /\ [][NextStrategy]_vars

(***************************************************************************)
(* Partialable (backtest/config.py)                                        *)
(***************************************************************************)
\* self.__dataclass_fields__, here the optional string fields of BacktestDataConfig
dataclass_fields == {"catalog_fs_protocol", "instrument_id", "client_id"}
FieldValues == {None, "a"}
Kwargs ==
    {Dict(kv) : kv \in SUBSET ({"instrument_id", "client_id", "bogus"} \X {"b"})}
    \cup {Dict({<<"client_id", None>>}), Dict({<<"bogus", None>>, <<"instrument_id", "b">>})}

InitConfig ==
    /\ InitProvider
    /\ filters = NoneDict
    /\ records = [catalogue |-> NoRecord, definition |-> NoRecord, other |-> NoRecord,
                  currency |-> None]
    /\ outputs = [catalogue |-> NotMade, definition |-> NotMade, other |-> NotMade]
    /\ counter = 0
    /\ signals = <<>>
    /\ ticks = <<>>
    /\ subscribed = FALSE
    /\ config \in [id : {"config"}, fields : [dataclass_fields -> FieldValues]]
    /\ last_update = NoUpdate
    /\ last_replace = NoReplace
    /\ last_inspect = NoInspect

\* variant: no keyword is checked
check_kwargsNone(kw) == None

\* _check_kwargs(kw): the message of the assertion that fails, or None
check_kwargs(kw) ==
    IF \E k \in Keys(kw) : k \notin dataclass_fields
    THEN "Unknown kwarg: " \o (CHOOSE k \in Keys(kw) : k \notin dataclass_fields)
    ELSE None

\* self.__dict__.update(kwargs)
dict_update(fields, kw) ==
    [k \in DOMAIN fields \cup Keys(kw) |->
        IF k \in Keys(kw) THEN (CHOOSE kv \in kw.items : kv[1] = k)[2] ELSE fields[k]]

\* config.update(**kwargs)
update(kw) ==
    /\ config.id # None
    /\ LET message == check_kwargs(kw)
       IN IF message # None
          THEN /\ last_update' = [called |-> TRUE, kwargs |-> kw, before |-> config.fields,
                                  raised |-> "AssertionError", message |-> message,
                                  returned |-> None]
               /\ UNCHANGED config
          ELSE /\ config' = [config EXCEPT !.fields = dict_update(config.fields, kw)]
               /\ last_update' = [called |-> TRUE, kwargs |-> kw, before |-> config.fields,
                                  raised |-> None, message |-> None, returned |-> config.id]
    /\ UNCHANGED <<provider, pc, op, argument, frame, calls, outcome, ret, regAtStart, nOps,
                   accountCalls, accountReturns, clock, reads, mapper, strategy,
                   last_replace, last_inspect>>

NextConfig == \E kw \in Kwargs : update(kw)

SpecConfig == InitConfig /\ [][NextConfig]_vars

\* the declared fields in declaration order
FieldOrder == <<"catalog_fs_protocol", "instrument_id", "client_id">>

\* the ignore argument of check: None, or a collection of field names
Ignores == {NoneDict} \cup {Dict(names) : names \in SUBSET dataclass_fields}

\* [x for x in self.__dataclass_fields__ if getattr(self, x) is None]
missing(fields) == SelectSeq(FieldOrder, LAMBDA x : fields[x] = None)

\* any(xs) over a list of strings: some element is not empty
any(xs) == \E i \in DOMAIN xs : xs[i] # ""

is_partial(fields) == any(missing(fields))

\* repr of a field value: None, or the string in quotes
ReprValue(v) == IF v = None THEN "None" ELSE "'" \o v \o "'"

RECURSIVE ReprList(_)
\* the items of repr(list of strings), separated by commas
ReprList(xs) ==
    IF xs = <<>> THEN ""
    ELSE ReprValue(Head(xs)) \o (IF Len(xs) > 1 THEN ", " ELSE "") \o ReprList(Tail(xs))

RECURSIVE ReprFields(_, _)
ReprFields(names, fields) ==
    IF names = <<>> THEN ""
    ELSE Head(names) \o "=" \o ReprValue(fields[Head(names)])
         \o (IF Len(names) > 1 THEN ", " ELSE "") \o ReprFields(Tail(names), fields)

\* the repr the dataclass generates: the class name and the fields in order
dataclass_repr(fields) == "BacktestDataConfig(" \o ReprFields(FieldOrder, fields) \o ")"

\* __repr__
repr(fields) ==
    IF missing(fields) # <<>>
    THEN "Partial-" \o dataclass_repr(fields)
    ELSE dataclass_repr(fields)

\* check(ignore)
check(fields, ignore) ==
    LET ignored == IF Truthy(ignore) THEN ignore.items ELSE {}
        left == SelectSeq(missing(fields), LAMBDA m : m \notin ignored)
    IN IF left # <<>>
       THEN [raised |-> "AssertionError",
             message |-> "Missing fields: [" \o ReprList(left) \o "]"]
       ELSE [raised |-> None, message |-> None]

\* variant: the receiver itself is changed and returned
replaceInPlace(self, kw) ==
    [raised |-> None,
     self |-> [self EXCEPT !.fields = dict_update(self.fields, kw)],
     value |-> [self EXCEPT !.fields = dict_update(self.fields, kw)]]

\* self.__class__(**{**{k: getattr(self, k) for k in fields}, **kwargs}): the
\* generated __init__ takes the declared fields only; the instance it makes is
\* named by the expression that made it
replace(self, kw) ==
    LET merged == dict_update([k \in dataclass_fields |-> self.fields[k]], kw)
    IN IF DOMAIN merged # dataclass_fields
       THEN [raised |-> "TypeError", self |-> self, value |-> [id |-> None, fields |-> <<>>]]
       ELSE [raised |-> None, self |-> self,
             value |-> [id |-> self.id \o ".replace()", fields |-> merged]]

\* config.replace(**kwargs)
CallReplace(kw) ==
    /\ config.id # None
    /\ LET r == replace(config, kw)
       IN /\ config' = r.self
          /\ last_replace' = [called |-> TRUE, kwargs |-> kw, receiver |-> config.id,
                              before |-> config.fields, raised |-> r.raised,
                              returned |-> r.value]
    /\ UNCHANGED <<provider, pc, op, argument, frame, calls, outcome, ret, regAtStart, nOps,
                   accountCalls, accountReturns, clock, reads, mapper, strategy,
                   last_update, last_inspect>>

\* config.is_partial(), repr(config), config.check(ignore)
Inspect(ignore) ==
    /\ config.id # None
    /\ last_inspect' = [called |-> TRUE, fields |-> config.fields, ignore |-> ignore,
                        is_partial |-> is_partial(config.fields),
                        repr |-> repr(config.fields),
                        check |-> check(config.fields, ignore)]
    /\ UNCHANGED <<provider, pc, op, argument, frame, calls, outcome, ret, regAtStart, nOps,
                   accountCalls, accountReturns, clock, reads, mapper, strategy,
                   config, last_update, last_replace>>

NextPartial ==
    \/ \E kw \in Kwargs : CallReplace(kw)
    \/ \E ignore \in Ignores : Inspect(ignore)

SpecPartial == InitConfig /\ [][NextPartial]_vars

(***************************************************************************)
(* Properties                                                              *)
(***************************************************************************)
CatalogueCalls == SelectSeq(calls, LAMBDA c : c.fn = "list_market_catalogue")
NavigationCalls == SelectSeq(calls, LAMBDA c : c.fn = "list_navigation")
DistinctMarketIds == {markets[i].market_id : i \in DOMAIN markets}
IdsOf(reg) == {InstrumentIdOf(reg[i]) : i \in DOMAIN reg}
\* k = ceil(n / 50)
IsCeilOfFiftieth(k, n) == k * 50 >= n /\ (k - 1) * 50 < n

HasForeignKey(d) ==
    \E k \in Keys(d) : k \notin VALID_MARKET_FILTER_KEYS \cup {"selection_id", "selection_handicap"}
FilterRejected == op \in {"load_all_async", "load_markets"} /\ HasForeignKey(argument)

\* C1: a filter with a key outside the allow-list makes load_all_async and
\* load_markets fail with the invalid-filter error without any remote call,
\* the account-details call included.
C1_NoRemoteCallAtAll ==
    FilterRejected => calls = <<>> /\ outcome = "AssertionError"

MetadataReturned ==
    op \in {"load_markets_metadata", "load_all_async"} /\ pc = "idle" /\ outcome = "ok"

\* C2: for N distinct market ids, load_markets_metadata issues ceil(N/50)
\* list_market_catalogue calls of at most 50 ids each, every distinct id is
\* sent in exactly one call and once, and the list returned is the
\* concatenation of the responses in the order of the requests.
C2_Chunking ==
    MetadataReturned =>
        LET cc == CatalogueCalls
            sent == {<<c, j>> \in (1..Len(cc)) \X (1..50) : j <= Len(cc[c].ids)}
        IN /\ IsCeilOfFiftieth(Len(cc), Cardinality(DistinctMarketIds))
           /\ \A c \in 1..Len(cc) : Len(cc[c].ids) <= 50
           /\ \A id \in DistinctMarketIds :
                 Cardinality({p \in sent : cc[p[1]].ids[p[2]] = id}) = 1
           /\ Cardinality(sent) = Cardinality(DistinctMarketIds)
           /\ Len(responses) = Len(cc)
           /\ \A c \in 1..Len(cc) :
                 [i \in 1..Len(responses[c]) |-> responses[c][i].marketId] = cc[c].ids
           /\ [i \in 1..Len(market_metadata) |-> market_metadata[i].market_id]
                 = Concat([c \in 1..Len(cc) |-> cc[c].ids])

C2_Witness ==
    /\ op = "load_markets_metadata"
    /\ pc = "idle"
    /\ outcome = "ok"
    /\ Len(CatalogueCalls) = 3
    /\ Len(markets) > Cardinality(DistinctMarketIds)

\* C3: when a get_betting_instrument call that returned an instrument is
\* followed by a call with the same arguments, the second call returns the
\* same instrument and does not scan the loaded instruments.
C3_Idempotent ==
    (/\ prevResolve.called
     /\ prevResolve.found
     /\ lastResolve.called
     /\ lastResolve.args = prevResolve.args)
    => /\ lastResolve.found
       /\ lastResolve.result = prevResolve.result
       /\ ~lastResolve.scanned

C3_Witness ==
    /\ prevResolve.called
    /\ prevResolve.found
    /\ prevResolve.scanned
    /\ lastResolve.called
    /\ lastResolve.args = prevResolve.args
    /\ lastResolve.result.market_id = lastResolve.args[1]

SameComposite(a, b) ==
    a[1] = b[1] /\ a[2] = b[2] /\ parse_handicap(a[3]) = parse_handicap(b[3])

\* C4: the memo holds at most one entry per (market, selection,
\* normalised handicap), and a call whose handicap normalises to the value of
\* an earlier successful call with the same market and selection does not scan.
C4_OneEntryPerNormalisedKey ==
    /\ \A k1, k2 \in DOMAIN cache : SameComposite(k1, k2) => k1 = k2
    /\ (/\ prevResolve.called
        /\ prevResolve.found
        /\ lastResolve.called
        /\ SameComposite(prevResolve.args, lastResolve.args))
       => ~lastResolve.scanned

NormalisedFilter(args) ==
    Dict({<<"market_id", args[1]>>, <<"selection_id", args[2]>>,
          <<"selection_handicap", parse_handicap(args[3])>>})

\* C5: a get_betting_instrument call without a matching instrument returns
\* None and memoises nothing, and the 'Found 0 instrument' warning is logged
\* once per (market, selection, normalised handicap): by the first miss, and
\* by no later one.
C5_WarnedOnce ==
    /\ \A i, j \in DOMAIN warnings : warnings[i] = warnings[j] => i = j
    /\ (lastResolve.called /\ ~lastResolve.found) =>
          /\ lastResolve.result = NoInstrument
          /\ lastResolve.args \notin DOMAIN cache
          /\ NormalisedFilter(lastResolve.args) \in Range(warnings)
    /\ lastResolve.warned =>
          /\ ~lastResolve.found
          /\ warnings[Len(warnings)] = NormalisedFilter(lastResolve.args)
    /\ \A k \in DOMAIN cache : cache[k] # NoInstrument

C5_Witness ==
    /\ prevResolve.called
    /\ prevResolve.warned
    /\ lastResolve.called
    /\ ~lastResolve.found
    /\ ~lastResolve.warned
    /\ lastResolve.args # prevResolve.args
    /\ SameComposite(lastResolve.args, prevResolve.args)
    /\ Len(warnings) = 1

ChunkRequestFailed ==
    /\ op = "load_all_async"
    /\ pc = "idle"
    /\ outcome = "RemoteCallError"
    /\ calls # <<>>
    /\ calls[Len(calls)].fn = "list_market_catalogue"

\* C6: when a list_market_catalogue request of load_all_async fails, the
\* request is not repeated, no further chunk is requested, the error ends
\* load_all_async, and the registry is what it was when the load started: the
\* responses received before the failure are dropped.
C6_FailedChunkAddsNothing ==
    ChunkRequestFailed =>
        /\ instruments = regAtStart
        /\ added = <<>>
        /\ market_metadata = <<>>
        /\ all_results = <<>>
        /\ chunks = <<>>
        /\ Len(responses) = Len(CatalogueCalls) - 1
        /\ \A i, j \in DOMAIN calls : calls[i] = calls[j] => i = j

C6_Witness ==
    /\ ChunkRequestFailed
    /\ Len(responses) = 1
    /\ Len(CatalogueCalls) = 2
    /\ \E i \in DOMAIN responses[1] : responses[1][i].runners # <<>>

Complete(ins) ==
    /\ ins.market_id # None
    /\ ins.event_name # None
    /\ ins.selection_id # None
    /\ ins.selection_name # None
    /\ ins.selection_handicap # None
    /\ ins.currency # None
    /\ ins.ts_init >= 1

\* C7: while load_all_async is suspended at a remote call, and after it was
\* cancelled there, the registry is the one it started with; every instrument
\* of the registry is completely mapped, no identifier is held twice and none
\* was added twice by one load; a search that runs at that point returns
\* instruments of the registry only, all of them when it has no filter.
C7_ReadersSeeWholeInstruments ==
    /\ \A i \in DOMAIN instruments : Complete(instruments[i])
    /\ Cardinality(IdsOf(instruments)) = Len(instruments)
    /\ Cardinality(Range(added)) = Len(added)
    /\ (op = "load_all_async" /\ (pc \in Awaits \/ outcome = "CancelledError")) =>
          instruments = regAtStart /\ added = <<>>
    /\ lastSearch.called =>
          /\ Range(lastSearch.result) \subseteq Range(instruments)
          /\ lastSearch.filter.items = {} => lastSearch.result = instruments
    /\ (lastResolve.called /\ lastResolve.found) => Complete(lastResolve.result)

C7_Witness ==
    /\ op = "load_all_async"
    /\ pc = "await_catalogue"
    /\ Len(responses) = 1
    /\ instruments # <<>>
    /\ lastSearch.called
    /\ lastSearch.result = instruments
    /\ lastResolve.found

\* C8: search_instruments returns exactly the loaded instruments that equal
\* the filter in every attribute it names, each once and in the order of the
\* registry, and all loaded instruments without a filter or with an empty one;
\* a search by market_id "1.1", once that market is loaded, returns its two
\* runners.
C8_SearchIsConjunctive ==
    lastSearch.called =>
        LET f == lastSearch.filter.items
            r == lastSearch.result
            wanted == {i \in DOMAIN instruments : \A kv \in f : instruments[i][kv[1]] = kv[2]}
        IN /\ Len(r) = Cardinality(wanted)
           /\ Range(r) = {instruments[i] : i \in wanted}
           /\ f = {} => r = instruments
           /\ (f = {<<"market_id", "1.1">>} /\ wanted # {}) => Len(r) = 2

C8_Witness ==
    /\ lastSearch.called
    /\ lastSearch.filter = Dict({<<"market_id", "1.1">>, <<"selection_id", "A">>})
    /\ Len(lastSearch.result) = 1
    /\ Len(instruments) > 2

LoadCompleted == op = "load_all_async" /\ pc = "idle" /\ outcome = "ok"

\* C9: a completed load_all_async has fetched the navigation once and the
\* metadata of every market found, and leaves the registry with one entry per
\* identifier: the identifiers it held before and those of this load, the
\* latter with the record of this load, all others unchanged.
C9_ReloadMerges ==
    LoadCompleted =>
        /\ Len(NavigationCalls) = 1
        /\ IsCeilOfFiftieth(Len(CatalogueCalls), Cardinality(DistinctMarketIds))
        /\ Cardinality(IdsOf(instruments)) = Len(instruments)
        /\ IdsOf(instruments) = IdsOf(regAtStart) \cup Range(added)
        /\ \A i \in DOMAIN instruments :
              IF InstrumentIdOf(instruments[i]) \in Range(added)
              THEN instruments[i].ts_init = clock - 1
              ELSE instruments[i] \in Range(regAtStart)

C9_Witness ==
    /\ LoadCompleted
    /\ \E i \in DOMAIN instruments :
          /\ instruments[i].ts_init = clock - 1
          /\ InstrumentIdOf(instruments[i]) \in IdsOf(regAtStart)
    /\ \E i \in DOMAIN instruments : instruments[i].ts_init < clock - 1

\* C10 as claimed: get_account_details is called at most once in the life of
\* a provider.
C10_CalledAtMostOnce == accountCalls <= 1

\* C10 as amended: at most one get_account_details call returns; once it has
\* returned the currency stays memoised, no further get_account_details call
\* is issued, and get_account_currency returns the memoised code at once. A
\* call that failed or was cancelled memoises nothing, and the next
\* load_all_async or get_account_currency calls get_account_details again.
C10_NoCallOnceMemoised ==
    [][/\ accountReturns' <= 1
       /\ account_currency # None =>
             /\ accountCalls' = accountCalls
             /\ account_currency' = account_currency
             /\ (nOps' # nOps /\ op' = "get_account_currency") =>
                   /\ ret' = account_currency
                   /\ pc' = "idle"
                   /\ outcome' = "ok"
                   /\ calls' = <<>>
       /\ (account_currency = None /\ account_currency' # None) =>
             accountReturns' = accountReturns + 1]_vars

C10_Witness ==
    /\ op = "get_account_currency"
    /\ outcome = "ok"
    /\ calls = <<>>
    /\ ret = account_currency
    /\ accountCalls = 1
    /\ accountReturns = 1

SelectionKeys == {"selection_id", "selection_handicap"}
MarketLevelItems(d) == {kv \in d.items : kv[1] \notin SelectionKeys}
NavigationFetchAccepts(d) ==
    \A kv \in MarketLevelItems(d) : kv[1] \in VALID_MARKET_FILTER_KEYS

\* C11: every invocation of load_markets with a valid filter issues exactly
\* one list_navigation call, the first invocation and every later one with
\* the same filter alike: an invocation never answers from an earlier fetch.
C11_NavigationAlwaysFetched ==
    (op = "load_markets" /\ NavigationFetchAccepts(argument)) =>
        /\ calls = <<Call("list_navigation", <<>>)>>
        /\ outcome # "AssertionError"
        /\ (pc = "idle" /\ outcome = "ok") => Len(NavigationCalls) = 1

C11_Witness ==
    /\ op = "load_markets"
    /\ nOps = 2
    /\ argument = Dict({<<"market_id", "1.1">>})
    /\ pc = "idle"
    /\ outcome = "ok"
    /\ markets # <<>>
    /\ Len(NavigationCalls) = 1

\* the leaves of a navigation of n markets that equal the filter d in every
\* key other than selection_id and selection_handicap
LeavesWanted(n, d) ==
    {i \in DOMAIN list_navigation(n) :
        \A kv \in MarketLevelItems(d) : list_navigation(n)[i][kv[1]] = kv[2]}

\* C12: selection_id and selection_handicap are removed from the filter of
\* load_markets before the allow-list check and before the navigation is
\* flattened: the call does not fail because of them and returns the markets
\* that equal the filter in the remaining keys.
C12_SelectionKeysDropped ==
    (op = "load_markets" /\ NavigationFetchAccepts(argument) /\ ~argument.none) =>
        /\ outcome # "AssertionError"
        /\ pc = "await_navigation" =>
              market_filter.items = MarketLevelItems(argument)
        /\ (pc = "idle" /\ outcome = "ok") =>
              \E n \in FetchNavSizes :
                 /\ Len(markets) = Cardinality(LeavesWanted(n, argument))
                 /\ Range(markets) = {list_navigation(n)[i] : i \in LeavesWanted(n, argument)}

C12_Witness ==
    /\ op = "load_markets"
    /\ argument = Dict({<<"event_name", "Test">>, <<"selection_id", "A">>})
    /\ pc = "idle"
    /\ outcome = "ok"
    /\ Len(markets) = 3
    /\ \A i \in DOMAIN markets : markets[i].event_name = "Test"

\* the selection a runner of a record of the given shape stands for
RunnerSelection(shape, runner) ==
    IF shape = "catalogue"
    THEN [id |-> runner.runner_id, name |-> runner.runner_name, raw |-> runner.handicap]
    ELSE [id |-> IF runner.selection_id # None THEN runner.selection_id ELSE runner.id,
          name |-> IF runner.name # None THEN runner.name ELSE "",
          raw |-> runner.hc]

\* C13: make_instruments turns a record of catalogue shape or of definition
\* shape into one instrument per runner, in the order of the runners, each
\* with the market_id of the record and the currency given; a record without
\* runners gives the empty list.
C13_OneInstrumentPerRunner ==
    \A shape \in {"catalogue", "definition"} :
        outputs[shape].called =>
            LET runners == records[shape].runners
                value == outputs[shape].value
            IN /\ outputs[shape].raised = None
               /\ Len(value) = Len(runners)
               /\ runners = <<>> => value = <<>>
               /\ \A i \in DOMAIN runners :
                     /\ value[i].market_id = records[shape].market_id
                     /\ value[i].currency = records.currency
                     /\ value[i].selection_id = RunnerSelection(shape, runners[i]).id
                     /\ value[i].selection_name = RunnerSelection(shape, runners[i]).name
                     /\ value[i].selection_handicap =
                           parse_handicap(RunnerSelection(shape, runners[i]).raw)

C13_Witness ==
    /\ outputs.catalogue.called
    /\ Len(outputs.catalogue.value) = 2
    /\ outputs.catalogue.value[1] # outputs.catalogue.value[2]
    /\ outputs.definition.called
    /\ records.definition.runners = <<>>
    /\ outputs.definition.value = <<>>

\* C14: a runner of a catalogue record and a runner of a definition record
\* with the same raw handicap give instruments with the same
\* selection_handicap, which is also the value get_betting_instrument searches
\* for when it is called with that raw handicap.
C14_SameHandicapBothShapes ==
    (outputs.catalogue.called /\ outputs.definition.called) =>
        \A i \in DOMAIN records.catalogue.runners, j \in DOMAIN records.definition.runners :
            records.catalogue.runners[i].handicap = records.definition.runners[j].hc =>
                /\ outputs.catalogue.value[i].selection_handicap
                      = outputs.definition.value[j].selection_handicap
                /\ <<"selection_handicap", outputs.definition.value[j].selection_handicap>>
                      \in InstrumentFilter("1.1", "A", records.definition.runners[j].hc).items

C14_Witness ==
    /\ outputs.catalogue.called
    /\ outputs.definition.called
    /\ \E i \in DOMAIN records.catalogue.runners, j \in DOMAIN records.definition.runners :
          /\ records.catalogue.runners[i].handicap = "0"
          /\ records.definition.runners[j].hc = "0"
          /\ outputs.catalogue.value[i].selection_handicap = "0.0"
          /\ outputs.definition.value[j].selection_handicap = "0.0"

UnknownShape(record) == record.type \notin {"MarketCatalogue", "MarketDefinition"}

\* C15: make_instruments on a record of neither shape raises a TypeError that
\* carries the type of the record and returns no list; when a record of the
\* list load_all_async creates instruments from has neither shape,
\* load_all_async ends with that TypeError and the registry is the one the
\* cycle started with.
C15_UnknownShapeRaises ==
    /\ outputs.other.called =>
          /\ outputs.other.raised = "TypeError"
          /\ outputs.other.blamed = records.other.type
    /\ (/\ op = "load_all_async"
        /\ pc = "idle"
        /\ \E i \in DOMAIN market_metadata : UnknownShape(market_metadata[i]))
       => /\ outcome = "TypeError"
          /\ instruments = regAtStart
          /\ added = <<>>

C15_Witness ==
    /\ outputs.other.called
    /\ outputs.other.raised = "TypeError"
    /\ op = "load_all_async"
    /\ outcome = "TypeError"
    /\ Len(market_metadata) = 2
    /\ market_metadata[1].type = "MarketCatalogue"
    /\ market_metadata[1].runners # <<>>
    /\ UnknownShape(market_metadata[2])
    /\ instruments = regAtStart
    /\ regAtStart # <<>>

\* the clock is read where instruments are created, at the end of a load
NoLoadCompleted == clock = 1

\* C16: a provider on which no load has completed holds no instruments: the
\* listing and every search are empty and every get_betting_instrument
\* returns None, also after a load that failed or was cancelled and while a
\* load is in flight.
C16_NothingBeforeLoad ==
    NoLoadCompleted =>
        /\ list_all(instruments) = <<>>
        /\ lastSearch.called => lastSearch.result = <<>>
        /\ lastResolve.called => ~lastResolve.found /\ lastResolve.result = NoInstrument
        /\ prevResolve.called => ~prevResolve.found /\ prevResolve.result = NoInstrument
        /\ DOMAIN cache = {}

C16_Witness ==
    /\ NoLoadCompleted
    /\ op = "load_all_async"
    /\ outcome = "RemoteCallError"
    /\ Len(responses) = 1
    /\ lastSearch.called
    /\ lastSearch.result = <<>>
    /\ lastResolve.called
    /\ lastResolve.result = NoInstrument

\* C17: the remote calls of a load are strictly sequential: a call is issued
\* only when no other is outstanding, list_navigation has returned before the
\* first list_market_catalogue call is issued, and the call of chunk k+1 is
\* issued only after the response of chunk k has been received.
C17_OneCallAtATime ==
    LET cc == CatalogueCalls
    IN /\ Len(cc) <= Len(responses) + 1
       /\ Len(cc) = Len(responses) + 1 =>
             \/ pc = "await_catalogue"
             \/ outcome \in {"RemoteCallError", "CancelledError"}
       /\ pc = "await_catalogue" =>
             Len(cc) = Len(responses) + 1 /\ calls[Len(calls)].fn = "list_market_catalogue"
       /\ pc = "await_navigation" =>
             cc = <<>> /\ calls[Len(calls)].fn = "list_navigation"
       /\ pc = "await_account" => calls = <<Call("get_account_details", <<>>)>>
       /\ (op = "load_all_async" /\ cc # <<>>) =>
             /\ markets # <<>>
             /\ Len(NavigationCalls) = 1
             /\ \A i, j \in DOMAIN calls :
                   (calls[i].fn = "list_navigation" /\ calls[j].fn = "list_market_catalogue")
                   => i < j

C17_Witness ==
    /\ op = "load_all_async"
    /\ pc = "await_catalogue"
    /\ Len(CatalogueCalls) = 2
    /\ Len(responses) = 1
    /\ Len(NavigationCalls) = 1

\* positions of the registry's listing that match the arguments of a lookup
Matching(reg, args) ==
    {i \in DOMAIN list_all(reg) :
        /\ list_all(reg)[i].market_id = args[1]
        /\ list_all(reg)[i].selection_id = args[2]
        /\ list_all(reg)[i].selection_handicap = parse_handicap(args[3])}

\* C18: a get_betting_instrument call that scans and finds more than one
\* matching instrument raises nothing, returns the first match of the
\* registry's listing and memoises it, and a later call with the same
\* arguments returns that same instrument.
C18_FirstOfSeveralMatches ==
    [][nResolves' # nResolves =>
        /\ (lastResolve'.scanned /\ Cardinality(Matching(instruments, lastResolve'.args)) > 1) =>
              LET m == Matching(instruments, lastResolve'.args)
                  first == CHOOSE i \in m : \A j \in m : i <= j
              IN /\ lastResolve'.count = Cardinality(m)
                 /\ lastResolve'.found
                 /\ lastResolve'.result = list_all(instruments)[first]
                 /\ cache'[lastResolve'.args] = lastResolve'.result
        /\ (lastResolve.found /\ lastResolve'.args = lastResolve.args) =>
              /\ ~lastResolve'.scanned
              /\ lastResolve'.result = lastResolve.result]_vars

C18_Witness ==
    /\ prevResolve.called
    /\ prevResolve.scanned
    /\ prevResolve.count = 2
    /\ lastResolve.called
    /\ lastResolve.args = prevResolve.args
    /\ ~lastResolve.scanned
    /\ lastResolve.result = prevResolve.result
    /\ lastResolve.result = instruments[1]
    /\ Cardinality(Matching(instruments, lastResolve.args)) = 2

\* C19: the counter of SignalStrategy starts at 0 and counts the trade ticks:
\* after n ticks it is n and n 'counter' signals have been published, the k-th
\* with value k and the ts_event of the k-th tick; on_start leaves it alone.
C19_CounterCountsTicks ==
    /\ counter = Len(ticks)
    /\ Len(signals) = Len(ticks)
    /\ \A k \in DOMAIN signals :
          signals[k] = [name |-> "counter", value |-> k, ts_event |-> ticks[k]]
    /\ ticks = <<>> => counter = 0

C19_Witness ==
    /\ subscribed
    /\ counter = 3
    /\ Len(signals) = 3
    /\ signals[3].value = 3
    /\ ticks[1] > ticks[2]
    /\ signals[2].ts_event = ticks[2]

UnknownKwargs(kw) == {k \in Keys(kw) : k \notin dataclass_fields}

\* C20: update with a keyword that is not a declared field fails with the
\* 'Unknown kwarg' assertion and changes no attribute, the declared keywords
\* of the same call included; update with declared fields only sets exactly
\* those attributes on the instance and returns that instance.
C20_UpdateChecksFirst ==
    last_update.called =>
        IF UnknownKwargs(last_update.kwargs) # {}
        THEN /\ last_update.raised = "AssertionError"
             /\ \E k \in UnknownKwargs(last_update.kwargs) :
                   last_update.message = "Unknown kwarg: " \o k
             /\ last_update.returned = None
             /\ config.fields = last_update.before
        ELSE /\ last_update.raised = None
             /\ last_update.returned = config.id
             /\ DOMAIN config.fields = dataclass_fields
             /\ \A kv \in last_update.kwargs.items : config.fields[kv[1]] = kv[2]
             /\ \A k \in dataclass_fields \ Keys(last_update.kwargs) :
                   config.fields[k] = last_update.before[k]

C20_Witness ==
    /\ last_update.called
    /\ last_update.kwargs = Dict({<<"bogus", None>>, <<"instrument_id", "b">>})
    /\ last_update.raised = "AssertionError"
    /\ last_update.before["instrument_id"] = "a"
    /\ config.fields["instrument_id"] = "a"

\* a declared field that is None and is not among the ignored names
SomeFieldMissing(fields, ignored) ==
    \E k \in dataclass_fields \ ignored : fields[k] = None

StartsWith(text, prefix) ==
    Len(text) >= Len(prefix) /\ SubSeq(text, 1, Len(prefix)) = prefix

\* C21: replace with keywords naming declared fields returns a new instance
\* whose fields are the receiver's except for those keywords; the receiver is
\* never changed by replace.  A configuration is partial exactly when some
\* declared field is None: is_partial and the 'Partial-' prefix of the repr say
\* so, and check(ignore) raises 'Missing fields' exactly when some declared
\* field outside ignore is None.
C21_ReplaceAndPartial ==
    /\ last_replace.called =>
          /\ config.id = last_replace.receiver
          /\ config.fields = last_replace.before
          /\ UnknownKwargs(last_replace.kwargs) = {} =>
                /\ last_replace.raised = None
                /\ last_replace.returned.id # None
                /\ last_replace.returned.id # last_replace.receiver
                /\ DOMAIN last_replace.returned.fields = dataclass_fields
                /\ \A kv \in last_replace.kwargs.items :
                      last_replace.returned.fields[kv[1]] = kv[2]
                /\ \A k \in dataclass_fields \ Keys(last_replace.kwargs) :
                      last_replace.returned.fields[k] = last_replace.before[k]
    /\ last_inspect.called =>
          /\ last_inspect.is_partial <=> SomeFieldMissing(last_inspect.fields, {})
          /\ StartsWith(last_inspect.repr, "Partial-")
                <=> SomeFieldMissing(last_inspect.fields, {})
          /\ last_inspect.check.raised = "AssertionError"
                <=> SomeFieldMissing(last_inspect.fields,
                                     IF last_inspect.ignore.none THEN {}
                                     ELSE last_inspect.ignore.items)
          /\ last_inspect.check.raised = "AssertionError"
                => StartsWith(last_inspect.check.message, "Missing fields")
          /\ last_inspect.check.raised \in {None, "AssertionError"}

C21_Witness ==
    /\ last_replace.called
    /\ last_replace.kwargs = Dict({<<"client_id", "b">>})
    /\ last_replace.before["client_id"] = None
    /\ last_replace.before["instrument_id"] = None
    /\ last_replace.returned.fields["client_id"] = "b"
    /\ config.fields["client_id"] = None
    /\ last_inspect.called
    /\ last_inspect.ignore = Dict({"instrument_id"})
    /\ last_inspect.is_partial
    /\ last_inspect.check.raised = "AssertionError"

\* the first instrument of the registry's listing that matches the arguments
FirstMatching(reg, args) ==
    list_all(reg)[CHOOSE i \in Matching(reg, args) : \A j \in Matching(reg, args) : i <= j]

\* C22: the missing set only grows; a get_betting_instrument call whose
\* normalised key is already in the missing set logs no warning; and when the
\* previous call with these arguments returned nothing and the registry now
\* holds a matching instrument, the call returns that instrument and memoises
\* it, the key staying in the missing set.
C22_MissingKeyDoesNotBlock ==
    [][/\ missing_instruments \subseteq missing_instruments'
       /\ nResolves' # nResolves =>
             LET args == lastResolve'.args
                 key == <<args[1], args[2], parse_handicap(args[3])>>
             IN /\ key \in missing_instruments => warnings' = warnings
                /\ (/\ lastResolve.called
                    /\ ~lastResolve.found
                    /\ lastResolve.args = args
                    /\ Matching(instruments, args) # {})
                   => /\ key \in missing_instruments
                      /\ lastResolve'.found
                      /\ lastResolve'.result = FirstMatching(instruments, args)
                      /\ args \in DOMAIN cache'
                      /\ cache'[args] = lastResolve'.result
                      /\ key \in missing_instruments']_vars

C22_Witness ==
    /\ prevResolve.called
    /\ ~prevResolve.found
    /\ prevResolve.warned
    /\ lastResolve.called
    /\ lastResolve.args = prevResolve.args
    /\ lastResolve.found
    /\ lastResolve.scanned
    /\ lastResolve.args \in DOMAIN cache
    /\ <<lastResolve.args[1], lastResolve.args[2], parse_handicap(lastResolve.args[3])>>
          \in missing_instruments
    /\ Len(warnings) = 1

\* C23: every get_betting_instrument call that returns an instrument returns
\* the record the registry holds at that moment under the instrument's
\* identifier; the memo never serves a record that a later load_all_async has
\* replaced in the registry.
C23_MemoServesRegistryRecord ==
    [][(nResolves' # nResolves /\ lastResolve'.found) =>
          \E i \in DOMAIN list_all(instruments) :
             /\ InstrumentIdOf(list_all(instruments)[i]) = InstrumentIdOf(lastResolve'.result)
             /\ list_all(instruments)[i] = lastResolve'.result]_vars

\* the instrument is the one the composite key (market, selection, handicap) names
NamedBy(instrument, key) ==
    /\ instrument.market_id = key[1]
    /\ instrument.selection_id = key[2]
    /\ instrument.selection_handicap = parse_handicap(key[3])

\* C24: every memo entry stored under (m, s, h) is an instrument of market m,
\* selection s and handicap parse_handicap(h); an entry is taken from the
\* registry as it is when the entry is made and is not changed afterwards;
\* and every instrument get_betting_instrument returns is the one asked for.
C24_MemoEntriesMatchTheirKey ==
    /\ [](/\ \A key \in DOMAIN cache : NamedBy(cache[key], key)
          /\ lastResolve.found => NamedBy(lastResolve.result, lastResolve.args))
    /\ [][\A key \in DOMAIN cache' :
             IF key \in DOMAIN cache
             THEN cache'[key] = cache[key]
             ELSE \E i \in DOMAIN list_all(instruments) :
                     list_all(instruments)[i] = cache'[key]]_vars

C24_Witness ==
    /\ Cardinality(DOMAIN cache) = 2
    /\ <<"1.1", "A", "0">> \in DOMAIN cache
    /\ cache[<<"1.1", "A", "0">>].selection_handicap = "0.0"
    /\ <<"1.1", "A", "0.0">> \in DOMAIN cache
    /\ Len(instruments) >= 2
    /\ lastResolve.found
    /\ lastResolve.result = cache[lastResolve.args]

\* C25: on a provider constructed without filters, load_all_async called
\* without a market_filter ends without an error of its own (an error of a
\* remote call or a cancellation apart): it has fetched the navigation once,
\* kept every market of it and requested the metadata of all of them.
C25_LoadAllWithoutFilter ==
    (/\ op = "load_all_async"
     /\ filters.none
     /\ argument.none
     /\ pc = "idle"
     /\ outcome \notin {"RemoteCallError", "CancelledError"})
    => /\ outcome = "ok"
       /\ Len(NavigationCalls) = 1
       /\ IsCeilOfFiftieth(Len(CatalogueCalls), Cardinality(DistinctMarketIds))
       /\ Range(added) \subseteq IdsOf(instruments)

====
